---- MODULE Spec2Model ----
(***************************************************************************)
(* State-machine model of the client-side synchronisation layer of the     *)
(* FormForge web workout builder: SocketService (lib/socket.ts), the       *)
(* FileProcessingProvider (contexts/FileProcessingContext.tsx) and the     *)
(* UploadProvider (contexts/UploadContext.tsx) with the document-upload    *)
(* component that drives them.                                             *)
(*                                                                         *)
(* The server and the socket.io transport are the environment: they choose *)
(* the ids a response carries, when the transport connects or drops, and   *)
(* which events arrive.  An event emitted for an uploadId reaches the      *)
(* client only while the client is in the room of that uploadId.           *)
(* The toasts the providers raise live in the state of a useToast hook     *)
(* (components/ui/use-toast.ts), modelled for one hook on its own.         *)
(*                                                                         *)
(* Five specifications share the variables:                                *)
(*   SpecSocket  SocketService driven through its public methods;          *)
(*   SpecProc    FileProcessingProvider over SocketService;                *)
(*   SpecAdd     the file list of UploadProvider under addFiles/removeFile; *)
(*   SpecUpload  an upload session of the page up to Generate Plans;       *)
(*   SpecToast   one useToast hook: toast, update, dismiss and its timers.  *)
(* The buttons of the page act on a rendered page: its effects have run    *)
(* and the modal dialog of ProcessingModal is closed.  emitLog puts the    *)
(* join/leave messages on record for SpecSocket and SpecProc; the upload   *)
(* actions change activeRooms only.                                        *)
(***************************************************************************)
EXTENDS Integers, Sequences, FiniteSets, TLC

(* ---------------------------------------------------------------- values *)

\* JavaScript null / undefined for string-valued fields, and the empty string.
Null == "null"
Undef == "undefined"
Empty == ""

\* number | null and optional numbers: <<>> is null / undefined, <<n>> is n.
None == <<>>
Some(n) == <<n>>

\* Upload ids the server hands out (and that the client passes around).
UploadIds == {"u1", "u2"}
\* File ids the server hands out.
FileIds == {"f1"}

\* JavaScript truthiness of a string-valued id.
Truthy(s) == s # Null /\ s # Undef /\ s # Empty

\* Bound on the join/leave messages logged for one room on one connection.
MaxLog == 3
\* Bound on the concurrently outstanding POST /api/files/process requests.
MaxInFlight == 1
\* Bound on the concurrently outstanding POST /api/files/upload requests.
MaxPosts == 1
\* Bound on the toast() calls of a session.
MaxToasts == 6
\* Bound on the files a session adds to the upload list.
MaxFiles == 2
\* Bound on the length of the list one addFiles call is given.
MaxAdd == 2

maxReconnectAttempts == 5
\* use-toast.ts: const TOAST_LIMIT = 5
TOAST_LIMIT == 5

(* ----------------------------------------------------------------- state *)

VARIABLES
    \* SocketService
    initialized,        \* private initialized
    isConnected,        \* private isConnected
    reconnectAttempts,  \* private reconnectAttempts
    activeRooms,        \* private activeRooms : Set<string>
    idMappings,         \* private idMappings : Map<serverId, clientId>
    \* socket.io socket owned by the service
    sockConnected,      \* the socket is connected to the server
    listeners,          \* event names that have a listener on the socket
    emitLog,            \* per room: join/leave messages put on record on this connection
    lastEvt,            \* last event handed to a registered callback
    \* FileProcessingProvider
    processingId, uploadId, processingStatus, processingProgress, currentFile,
    processedFiles, totalFiles, processingError, processingResults, isModalOpen,
    currentChunk, totalChunks, embeddingProgress, fileProgress, statusMessage,
    serverStatus,
    procRequests,       \* POST /api/files/process requests in flight
    lastPost,           \* what the last startProcessing call did
    \* UploadProvider
    files, isUploading, overallProgress, allUploadsComplete,
    effectPending,      \* the [files, isUploading] effect is scheduled
    uploadQueue,        \* files the running uploadFiles loop has still to upload
    httpUploads,        \* POST /api/files/upload requests in flight
    serverOwes,         \* uploadComplete events the server has still to emit
    nextFileId,         \* source of client file ids
    lastAdd,            \* what the last addFiles call was given and found
    \* useToast (one instance of the hook)
    toasts,             \* state.toasts
    count,              \* the module's id counter
    droppedToast        \* id of the toast the last toast() call dropped, 0 if none

sockVars == <<initialized, isConnected, reconnectAttempts, activeRooms,
              idMappings, sockConnected, listeners, emitLog>>

procState == <<processingId, uploadId, processingStatus, processingProgress,
               currentFile, processedFiles, totalFiles, processingError,
               processingResults, isModalOpen, currentChunk, totalChunks,
               embeddingProgress, fileProgress, statusMessage, serverStatus>>

procVars == <<procState, procRequests, lastPost>>

upVars == <<files, isUploading, overallProgress, allUploadsComplete,
            effectPending, uploadQueue, httpUploads, serverOwes, nextFileId,
            lastAdd>>

toastVars == <<toasts, count, droppedToast>>

vars == <<sockVars, lastEvt, procVars, upVars, toastVars>>

NoEvent == [name |-> "none"]
NoPost == [called |-> FALSE]
EmptyMap == [x \in {} |-> Empty]
EmptyLog == [r \in UploadIds |-> <<>>]

(* --------------------------------------------------------- SocketService *)

\* getSocket(): a service that is not initialized creates a fresh socket,
\* which has no listeners and is not connected yet.
ListenersOfSocket == IF initialized THEN listeners ELSE {}
ConnectedOfSocket == IF initialized THEN sockConnected ELSE FALSE

\* idMappings.set(serverId, clientId)
MapSet(m, serverId, clientId) ==
    [x \in (DOMAIN m) \cup {serverId} |-> IF x = serverId THEN clientId ELSE m[x]]

\* Mutant of getClientId: the mapping is ignored.
getClientIdNoMapping(serverId) == serverId

\* getClientId: idMappings.get(serverId) || serverId
getClientId(serverId) ==
    IF serverId \in DOMAIN idMappings /\ Truthy(idMappings[serverId])
    THEN idMappings[serverId]
    ELSE serverId

\* The listener every on<Event> method installs: the callback gets the event
\* with uploadId replaced by the client id, all other fields spread as is.
WrapEvent(data) == [data EXCEPT !.uploadId = getClientId(data.uploadId)]

\* Mutant of CanJoin: the activeRooms test is dropped.
CanJoinAlways(room) == isConnected

\* joinUploadRoom passes both early returns.
CanJoin(room) == isConnected /\ room \notin activeRooms

\* Mutant of CanLeave: the activeRooms test is dropped.
CanLeaveAlways(room) == isConnected

\* leaveUploadRoom passes both early returns.
CanLeave(room) == isConnected /\ room \in activeRooms

\* The log of one room is full: the model stops emitting for it.
LogFull(room) == Len(emitLog[room]) >= MaxLog

\* getSocket(): initialize() runs when the service is not initialized.
GetSocket ==
    /\ initialized' = TRUE
    /\ sockConnected' = ConnectedOfSocket

\* joinUploadRoom(room): the rooms after the call.
JoinRoom(room) ==
    activeRooms' = IF CanJoin(room) THEN activeRooms \cup {room} ELSE activeRooms

\* leaveUploadRoom(room): the rooms after the call.
LeaveRoom(room) ==
    activeRooms' = IF CanLeave(room) THEN activeRooms \ {room} ELSE activeRooms

\* joinUploadRoom(room), with its emit("join-upload-room") put on record.
JoinEffect(room) ==
    /\ JoinRoom(room)
    /\ emitLog' = IF CanJoin(room)
                  THEN [emitLog EXCEPT ![room] = Append(@, "join")]
                  ELSE emitLog

\* leaveUploadRoom(room), with its emit("leave-upload-room") put on record.
LeaveEffect(room) ==
    /\ LeaveRoom(room)
    /\ emitLog' = IF CanLeave(room)
                  THEN [emitLog EXCEPT ![room] = Append(@, "leave")]
                  ELSE emitLog

\* socket.on("connect")
OnConnect ==
    /\ initialized /\ ~sockConnected
    /\ sockConnected' = TRUE
    /\ isConnected' = TRUE
    /\ reconnectAttempts' = 0
    /\ UNCHANGED <<initialized, activeRooms, idMappings, listeners, emitLog,
                   lastEvt, toastVars, procVars, upVars>>

\* Mutant of OnDisconnect: the transport's disconnect clears the id mappings too.
OnDisconnectClearsMappings ==
    /\ initialized /\ (sockConnected \/ isConnected)
    /\ sockConnected' = FALSE
    /\ isConnected' = FALSE
    /\ activeRooms' = {}
    /\ idMappings' = EmptyMap
    /\ emitLog' = EmptyLog
    /\ UNCHANGED <<initialized, reconnectAttempts, listeners,
                   lastEvt, toastVars, procVars, upVars>>

\* socket.on("disconnect"): the transport dropped; the server forgets the
\* rooms of the connection.
OnDisconnect ==
    /\ initialized /\ (sockConnected \/ isConnected)
    /\ sockConnected' = FALSE
    /\ isConnected' = FALSE
    /\ activeRooms' = {}
    /\ emitLog' = EmptyLog
    /\ UNCHANGED <<initialized, reconnectAttempts, idMappings, listeners,
                   lastEvt, toastVars, procVars, upVars>>

\* socket.on("connect_error")
OnConnectError ==
    /\ initialized /\ ~sockConnected
    /\ reconnectAttempts < maxReconnectAttempts
    /\ reconnectAttempts' = reconnectAttempts + 1
    /\ UNCHANGED <<initialized, isConnected, activeRooms, idMappings,
                   sockConnected, listeners, emitLog, lastEvt, toastVars, procVars, upVars>>

\* socket.io.on("reconnect"): the manager reopened the transport; the socket's
\* own "connect" follows.
OnReconnect ==
    /\ initialized /\ ~sockConnected /\ ~isConnected
    /\ isConnected' = TRUE
    /\ UNCHANGED <<initialized, reconnectAttempts, activeRooms, idMappings,
                   sockConnected, listeners, emitLog, lastEvt, toastVars, procVars, upVars>>

\* mapServerToClientId(serverId, clientId)
MapEffect(serverId, clientId) == idMappings' = MapSet(idMappings, serverId, clientId)

\* The socket hands an event to the listener of its name: the client is
\* connected, has a listener, and is in the room the event was emitted to.
Receives(name, data) ==
    /\ initialized /\ sockConnected
    /\ name \in listeners
    /\ data.uploadId \in activeRooms

\* What the listener passes to the callback, as recorded in lastEvt; a
\* provider's handler sets applied when it takes its accepting branch.
Handed(name, data) ==
    [name |-> name, raw |-> data, data |-> WrapEvent(data), applied |-> FALSE]

(* ------------------------------------------------------- events (server) *)

UploadEventNames == {"uploadProgress", "uploadComplete", "uploadError"}
ProcessingEventNames == {"processingStart", "processingProgress",
                         "processingComplete", "processingError"}
EventNames == UploadEventNames \cup ProcessingEventNames

UploadProgressData ==
    {[uploadId |-> u, percent |-> p, completed |-> (p = 100)] :
        u \in UploadIds, p \in {50}}

UploadCompleteData ==
    {[uploadId |-> u, fileId |-> f, percent |-> 100, completed |-> TRUE] :
        u \in UploadIds, f \in FileIds \cup {Empty}}

UploadErrorData ==
    {[uploadId |-> u, error |-> "Network Error"] : u \in UploadIds}

ProcessingStartData ==
    {[uploadId |-> u, processingId |-> "p1", totalFiles |-> 2,
      status |-> o.status, message |-> o.message] :
        u \in UploadIds,
        o \in {[status |-> Undef, message |-> Undef],
               [status |-> "analyzing", message |-> "working"]}}

ProcessingProgressData ==
    {[uploadId |-> u, processingId |-> "p1", currentFile |-> o.currentFile,
      processedFiles |-> 1, totalFiles |-> 2, percent |-> 40,
      overallProgress |-> o.overallProgress, currentChunk |-> o.chunk,
      totalChunks |-> o.chunk, fileProgress |-> o.fileProgress,
      embeddingProgress |-> o.fileProgress, status |-> o.status,
      message |-> o.message] :
        u \in UploadIds,
        o \in {[currentFile |-> Null, overallProgress |-> None, chunk |-> None,
                fileProgress |-> None, status |-> Undef, message |-> Undef],
               [currentFile |-> "a.pdf", overallProgress |-> Some(70),
                chunk |-> Some(3), fileProgress |-> Some(80),
                status |-> "partial_error", message |-> "working"]}}

ProcessingCompleteData ==
    {[uploadId |-> u, processingId |-> "p1", processedFiles |-> 2,
      totalFiles |-> 2, totalChunks |-> 5, totalCharacters |-> 900,
      results |-> <<"f1">>, status |-> "partial_complete", message |-> Undef] :
        u \in UploadIds}

ProcessingErrorData ==
    {[uploadId |-> u, processingId |-> "p1", error |-> "processing failed",
      status |-> Undef, message |-> "working"] :
        u \in UploadIds}

EventData(name) ==
    CASE name = "uploadProgress" -> UploadProgressData
      [] name = "uploadComplete" -> UploadCompleteData
      [] name = "uploadError" -> UploadErrorData
      [] name = "processingStart" -> ProcessingStartData
      [] name = "processingProgress" -> ProcessingProgressData
      [] name = "processingComplete" -> ProcessingCompleteData
      [] name = "processingError" -> ProcessingErrorData

(* ------------------------------------------- SocketService as a unit *)

\* A caller joins a room.
CallJoin(room) ==
    /\ CanJoin(room) => ~LogFull(room)
    /\ GetSocket
    /\ listeners' = ListenersOfSocket
    /\ JoinEffect(room)
    /\ UNCHANGED <<isConnected, reconnectAttempts, idMappings, lastEvt, toastVars,
                   procVars, upVars>>

\* A caller leaves a room.
CallLeave(room) ==
    /\ CanLeave(room) => ~LogFull(room)
    /\ GetSocket
    /\ listeners' = ListenersOfSocket
    /\ LeaveEffect(room)
    /\ UNCHANGED <<isConnected, reconnectAttempts, idMappings, lastEvt, toastVars,
                   procVars, upVars>>

\* A caller records that the server uses serverId for the client's clientId.
CallMap(serverId, clientId) ==
    /\ serverId # clientId
    /\ MapEffect(serverId, clientId)
    /\ UNCHANGED <<initialized, isConnected, reconnectAttempts, activeRooms,
                   sockConnected, listeners, emitLog, lastEvt, toastVars, procVars, upVars>>

\* onUploadProgress .. onProcessingError, called as the two providers call
\* them, one group of events at a time: off(name), then on(name, listener).
CallOn(names) ==
    /\ GetSocket
    /\ listeners' = ListenersOfSocket \cup names
    /\ UNCHANGED <<isConnected, reconnectAttempts, activeRooms, idMappings,
                   emitLog, lastEvt, toastVars, procVars, upVars>>

\* disconnect(): the socket was created at start-up, so this.socket is set.
CallDisconnect ==
    /\ initialized' = FALSE
    /\ isConnected' = FALSE
    /\ activeRooms' = {}
    /\ idMappings' = EmptyMap
    /\ sockConnected' = FALSE
    /\ listeners' = {}
    /\ emitLog' = EmptyLog
    /\ UNCHANGED <<reconnectAttempts, lastEvt, toastVars, procVars, upVars>>

\* The server emits an event and the listener hands it to the callback.
SocketEvent(name, data) ==
    /\ Receives(name, data)
    /\ lastEvt' = Handed(name, data)
    /\ UNCHANGED <<sockVars, procVars, upVars, toastVars>>

(* ------------------------------------------------ FileProcessingProvider *)

\* mapSocketStatusToUiStatus
mapSocketStatusToUiStatus(status) ==
    IF ~Truthy(status) THEN "processing"
    ELSE CASE status = "complete" -> "complete"
           [] status \in {"error", "partial_error"} -> "error"
           [] status = "partial_complete" -> "complete"
           [] OTHER -> "processing"

\* Mutant of HandlerUploadId: the handlers read the provider's current uploadId.
HandlerUploadIdCurrent == uploadId

\* The uploadId the four handlers read.  They are the closures of the object
\* given to useRef on the first render; useRef keeps that object, so they see
\* the uploadId of the first render for as long as the provider is mounted.
HandlerUploadId == Null

\* The test all four handlers start with:
\* data.uploadId === uploadId || (data.uploadId && !uploadId)
Accepts(id) ==
    \/ id = HandlerUploadId
    \/ Truthy(id) /\ ~Truthy(HandlerUploadId)

\* if (!uploadId && data.uploadId) setUploadId(data.uploadId)
AdoptUploadId(id) ==
    uploadId' = IF ~Truthy(HandlerUploadId) /\ Truthy(id) THEN id ELSE uploadId

\* if (data.status) setServerStatus(..); if (data.message) setStatusMessage(..)
AdoptStatusAndMessage(d) ==
    /\ serverStatus' = IF Truthy(d.status) THEN d.status ELSE serverStatus
    /\ statusMessage' = IF Truthy(d.message) THEN d.message ELSE statusMessage

handleProcessingStart(d) ==
    IF Accepts(d.uploadId)
    THEN /\ AdoptUploadId(d.uploadId)
         /\ processingStatus' = "processing"
         /\ processingProgress' = 0
         /\ processedFiles' = 0
         /\ totalFiles' = d.totalFiles
         /\ processingId' = d.processingId
         /\ AdoptStatusAndMessage(d)
         /\ UNCHANGED <<currentFile, processingError, processingResults,
                        isModalOpen, currentChunk, totalChunks,
                        embeddingProgress, fileProgress>>
    ELSE UNCHANGED procState

handleProcessingProgress(d) ==
    IF Accepts(d.uploadId)
    THEN /\ AdoptUploadId(d.uploadId)
         /\ currentFile' = IF d.currentFile # Undef THEN d.currentFile ELSE currentFile
         /\ processedFiles' = d.processedFiles
         /\ totalFiles' = d.totalFiles
         /\ processingProgress' = IF d.overallProgress # None
                                  THEN d.overallProgress[1] ELSE d.percent
         /\ currentChunk' = IF d.currentChunk # None THEN d.currentChunk ELSE currentChunk
         /\ totalChunks' = IF d.totalChunks # None THEN d.totalChunks ELSE totalChunks
         /\ fileProgress' = IF d.fileProgress # None THEN d.fileProgress ELSE fileProgress
         /\ embeddingProgress' = IF d.embeddingProgress # None
                                 THEN d.embeddingProgress ELSE embeddingProgress
         /\ serverStatus' = IF Truthy(d.status) THEN d.status ELSE serverStatus
         /\ processingStatus' = IF Truthy(d.status)
                                THEN mapSocketStatusToUiStatus(d.status)
                                ELSE processingStatus
         /\ statusMessage' = IF Truthy(d.message) THEN d.message ELSE statusMessage
         /\ UNCHANGED <<processingId, processingError, processingResults, isModalOpen>>
    ELSE UNCHANGED procState

handleProcessingComplete(d) ==
    IF Accepts(d.uploadId)
    THEN /\ AdoptUploadId(d.uploadId)
         /\ processingStatus' = "complete"
         /\ processingProgress' = 100
         /\ processedFiles' = d.processedFiles
         /\ totalFiles' = d.totalFiles
         /\ processingResults' = Some([totalChunks |-> d.totalChunks,
                                       totalCharacters |-> d.totalCharacters,
                                       results |-> d.results])
         /\ AdoptStatusAndMessage(d)
         /\ UNCHANGED <<processingId, currentFile, processingError, isModalOpen,
                        currentChunk, totalChunks, embeddingProgress, fileProgress>>
    ELSE UNCHANGED procState

handleProcessingError(d) ==
    IF Accepts(d.uploadId)
    THEN /\ AdoptUploadId(d.uploadId)
         /\ processingStatus' = "error"
         /\ processingError' = d.error
         /\ AdoptStatusAndMessage(d)
         /\ UNCHANGED <<processingId, processingProgress, currentFile,
                        processedFiles, totalFiles, processingResults, isModalOpen,
                        currentChunk, totalChunks, embeddingProgress, fileProgress>>
    ELSE UNCHANGED procState

\* The effect on [uploadId]: its cleanup removes the four processing
\* listeners, and with an uploadId set it installs them again.
ListenersForUploadId(id) ==
    IF Truthy(id) THEN listeners \cup ProcessingEventNames
                  ELSE listeners \ ProcessingEventNames

\* The server emits a processing event to a room the client is in; the
\* listener rewrites the uploadId and calls the provider's handler.
ProcessingEvent(name, data) ==
    /\ Receives(name, data)
    /\ lastEvt' = [Handed(name, data) EXCEPT
                      !.applied = Accepts(WrapEvent(data).uploadId)]
    /\ CASE name = "processingStart" -> handleProcessingStart(WrapEvent(data))
         [] name = "processingProgress" -> handleProcessingProgress(WrapEvent(data))
         [] name = "processingComplete" -> handleProcessingComplete(WrapEvent(data))
         [] name = "processingError" -> handleProcessingError(WrapEvent(data))
    /\ listeners' = ListenersForUploadId(uploadId')
    /\ UNCHANGED <<initialized, isConnected, reconnectAttempts, activeRooms,
                   idMappings, sockConnected, emitLog, procRequests, lastPost,
                   upVars, toastVars>>

\* Mutant of StartGuard: a call is let through while processing is under way.
StartGuardIgnoresStatus(id, fileIds) ==
    ~(~Truthy(id) \/ Len(fileIds) = 0)

\* The guard of startProcessing lets the call through.
StartGuard(id, fileIds) ==
    ~(processingStatus = "processing" \/ ~Truthy(id) \/ Len(fileIds) = 0)

\* startProcessing(uploadId, fileIds), up to the await of the POST.
StartProcessing(id, fileIds) ==
    IF StartGuard(id, fileIds)
    THEN /\ Len(procRequests) < MaxInFlight
         /\ CanJoin(id) => ~LogFull(id)
         /\ uploadId' = id
         /\ GetSocket
         /\ JoinEffect(id)
         /\ processingStatus' = "processing"
         /\ processingProgress' = 0
         /\ processingError' = Null
         /\ currentChunk' = None
         /\ totalChunks' = None
         /\ embeddingProgress' = None
         /\ fileProgress' = None
         /\ statusMessage' = Null
         /\ serverStatus' = Null
         /\ isModalOpen' = TRUE
         /\ procRequests' = Append(procRequests, id)
         /\ lastPost' = [called |-> TRUE, posted |-> TRUE]
         /\ listeners' = ListenersForUploadId(id)
         /\ UNCHANGED <<processingId, currentFile, processedFiles, totalFiles,
                        processingResults, isConnected, reconnectAttempts,
                        idMappings, lastEvt, toastVars, upVars>>
    ELSE /\ lastPost' = [called |-> TRUE, posted |-> FALSE]
         /\ UNCHANGED <<sockVars, procState, procRequests, lastEvt, toastVars, upVars>>

RemoveAt(seq, i) == SubSeq(seq, 1, i - 1) \o SubSeq(seq, i + 1, Len(seq))

\* POST /api/files/process answered: the rest of the try block.
ProcessResponse(i, serverUploadId, serverProcessingId) ==
    /\ i \in 1..Len(procRequests)
    /\ procRequests' = RemoveAt(procRequests, i)
    /\ IF Truthy(serverUploadId) /\ serverUploadId # procRequests[i]
       THEN /\ CanJoin(serverUploadId) => ~LogFull(serverUploadId)
            /\ MapEffect(serverUploadId, procRequests[i])
            /\ GetSocket
            /\ JoinEffect(serverUploadId)
            /\ uploadId' = serverUploadId
       ELSE UNCHANGED <<idMappings, initialized, sockConnected, activeRooms,
                        emitLog, uploadId>>
    /\ processingId' = IF Truthy(serverProcessingId)
                       THEN serverProcessingId ELSE processingId
    /\ listeners' = ListenersForUploadId(uploadId')
    /\ UNCHANGED <<isConnected, reconnectAttempts, processingStatus,
                   processingProgress, currentFile, processedFiles, totalFiles,
                   processingError, processingResults, isModalOpen, currentChunk,
                   totalChunks, embeddingProgress, fileProgress, statusMessage,
                   serverStatus, lastPost, lastEvt, toastVars, upVars>>

\* Mutant of FailureMessage: the message of the thrown Error is not used.
FailureMessageGeneric(isError) == "An unexpected error occurred"

\* error instanceof Error ? error.message : "An unexpected error occurred"
FailureMessage(isError) ==
    IF isError THEN "Network Error" ELSE "An unexpected error occurred"

\* POST /api/files/process failed: the catch block.  isError says whether the
\* thrown value is an Error.
ProcessFailure(i, isError) ==
    /\ i \in 1..Len(procRequests)
    /\ procRequests' = RemoveAt(procRequests, i)
    /\ processingStatus' = "error"
    /\ processingError' = FailureMessage(isError)
    /\ UNCHANGED <<sockVars, processingId, uploadId, processingProgress,
                   currentFile, processedFiles, totalFiles, processingResults,
                   isModalOpen, currentChunk, totalChunks, embeddingProgress,
                   fileProgress, statusMessage, serverStatus, lastPost, lastEvt, toastVars,
                   upVars>>

\* resetProcessing()
ResetEffect ==
    /\ processingId' = Null
    /\ uploadId' = Null
    /\ processingStatus' = "idle"
    /\ processingProgress' = 0
    /\ currentFile' = Null
    /\ processedFiles' = 0
    /\ totalFiles' = 0
    /\ processingError' = Null
    /\ processingResults' = None
    /\ currentChunk' = None
    /\ totalChunks' = None
    /\ embeddingProgress' = None
    /\ fileProgress' = None
    /\ statusMessage' = Null
    /\ serverStatus' = Null

\* The modal's Close button: handleClose.
HandleClose ==
    /\ isModalOpen
    /\ isModalOpen' = FALSE
    /\ IF processingStatus \in {"complete", "error"}
       THEN /\ ResetEffect
            /\ listeners' = ListenersForUploadId(Null)
       ELSE UNCHANGED <<processingId, uploadId, processingStatus,
                        processingProgress, currentFile, processedFiles,
                        totalFiles, processingError, processingResults,
                        currentChunk, totalChunks, embeddingProgress,
                        fileProgress, statusMessage, serverStatus, listeners>>
    /\ UNCHANGED <<initialized, isConnected, reconnectAttempts, activeRooms,
                   idMappings, sockConnected, emitLog, procRequests, lastPost,
                   lastEvt, toastVars, upVars>>

\* The dialog's onOpenChange: setIsModalOpen(open).
SetIsModalOpen(open) ==
    /\ isModalOpen # open
    /\ isModalOpen' = open
    /\ UNCHANGED <<sockVars, processingId, uploadId, processingStatus,
                   processingProgress, currentFile, processedFiles, totalFiles,
                   processingError, processingResults, currentChunk, totalChunks,
                   embeddingProgress, fileProgress, statusMessage, serverStatus,
                   procRequests, lastPost, lastEvt, toastVars, upVars>>

(* -------------------------------------------------------- UploadProvider *)

\* File objects a user can drop: MIME type and name (a sequence of characters).
Files ==
    {[type |-> "application/pdf", name |-> <<"a">>],
     [type |-> "", name |-> <<"b", ".", "m", "d">>],
     [type |-> "text/markdown", name |-> <<"m">>],
     [type |-> "text/plain", name |-> <<"m", "d">>],
     [type |-> "image/png", name |-> <<"c", ".", "m", "d", "x">>]}

\* String.prototype.endsWith
endsWith(str, suffix) ==
    /\ Len(str) >= Len(suffix)
    /\ SubSeq(str, Len(str) - Len(suffix) + 1, Len(str)) = suffix

\* Mutant of isValid: the test of the file name is left out.
isValidByTypeOnly(file) ==
    file.type = "application/pdf" \/ file.type = "text/markdown"

\* addFiles: the filter's isValid
isValid(file) ==
    \/ file.type = "application/pdf"
    \/ endsWith(file.name, <<".", "m", "d">>)
    \/ file.type = "text/markdown"

\* Array.prototype.map over a list.
Map(list, F(_)) == [i \in 1..Len(list) |-> F(list[i])]

\* Array.prototype.filter over a list.
Filter(list, P(_)) == SelectSeq(list, P)

\* addFiles: the UploadFile made for the k-th valid file.
NewUploadFile(file, k) ==
    [id |-> nextFileId + k - 1, file |-> file, uploadId |-> Null,
     fileId |-> Null, progress |-> 0, status |-> "idle", error |-> Undef]

\* addFiles(newFiles), from the dropzone of the page, which the open modal
\* dialog of ProcessingModal covers.
AddFiles(newFiles) ==
    LET validFiles == Filter(newFiles, isValid) IN
    /\ ~isModalOpen /\ ~effectPending
    /\ nextFileId + Len(validFiles) - 1 <= MaxFiles
    /\ lastAdd' = [accepted |-> Len(validFiles),
                   rejected |-> Len(newFiles) - Len(validFiles)]
    /\ IF Len(validFiles) = 0
       THEN UNCHANGED <<files, nextFileId, effectPending>>
       ELSE /\ files' = files \o [k \in 1..Len(validFiles) |->
                                    NewUploadFile(validFiles[k], k)]
            /\ nextFileId' = nextFileId + Len(validFiles)
            /\ effectPending' = TRUE
    /\ UNCHANGED <<sockVars, lastEvt, toastVars, procVars, isUploading, overallProgress,
                   allUploadsComplete, uploadQueue, httpUploads, serverOwes>>

RECURSIVE Sum(_)
\* files.reduce((sum, file) => sum + file.progress, 0)
Sum(list) == IF list = <<>> THEN 0 ELSE list[1].progress + Sum(Tail(list))

\* Mutant of MathRound: the quotient is truncated.
MathFloor(total, n) == total \div n

\* Math.round(total / n) for total >= 0, n > 0: halves round up.
MathRound(total, n) == (2 * total + n) \div (2 * n)

\* files.every(status is completed or error)
AllComplete(list) ==
    \A i \in 1..Len(list) : list[i].status \in {"completed", "error"}

\* Mutant of IsUploadingAfterEffect: the effect never clears isUploading.
IsUploadingKept(allComplete) == isUploading

\* The effect's last statement: if (allComplete && isUploading) setIsUploading(false)
IsUploadingAfterEffect(allComplete) ==
    IF allComplete /\ isUploading THEN FALSE ELSE isUploading

\* The effect on [files, isUploading].
FilesEffect ==
    /\ effectPending
    /\ IF Len(files) = 0
       THEN /\ overallProgress' = 0
            /\ allUploadsComplete' = FALSE
            /\ isUploading' = isUploading
       ELSE /\ overallProgress' = MathRound(Sum(files), Len(files))
            /\ allUploadsComplete' = AllComplete(files)
            /\ isUploading' = IsUploadingAfterEffect(AllComplete(files))
    /\ effectPending' = (isUploading' # isUploading)
    /\ UNCHANGED <<sockVars, lastEvt, toastVars, procVars, files, uploadQueue, httpUploads,
                   serverOwes, nextFileId, lastAdd>>

\* setFiles(prev => prev.map(file => file.id === id ? F(file) : file))
UpdateById(list, id, F(_)) ==
    [i \in 1..Len(list) |-> IF list[i].id = id THEN F(list[i]) ELSE list[i]]

\* setFiles(prev => prev.map(file => file.uploadId === u && P(file) ? F(file) : file))
UpdateByUploadId(list, u, P(_), F(_)) ==
    [i \in 1..Len(list) |->
        IF list[i].uploadId = u /\ P(list[i]) THEN F(list[i]) ELSE list[i]]

\* uploadFile: the file is marked as uploading before the POST is sent.
MarkUploading(list, id) ==
    LET F(f) == [f EXCEPT !.status = "uploading", !.progress = 0, !.error = Undef]
    IN UpdateById(list, id, F)

\* uploadFile: the ids of the response are stored.
StoreIds(list, id, u, f) ==
    LET F(x) == [x EXCEPT !.uploadId = u, !.fileId = f]
    IN UpdateById(list, id, F)

\* uploadFile: the catch block marks the file as failed.
MarkError(list, id, message) ==
    LET F(f) == [f EXCEPT !.status = "error", !.error = message]
    IN UpdateById(list, id, F)

\* A POST /api/files/upload of the file the caller's closure holds: its client
\* id, the uploadId the closure saw, and whether the uploadFiles loop awaits it.
Request(entry, loop) ==
    [id |-> entry.id, uploadId |-> entry.uploadId, loop |-> loop,
     answered |-> FALSE, resUploadId |-> Empty, resFileId |-> Empty]

\* An uploadFiles loop is between two of its awaits.
LoopRunning == uploadQueue # <<>> \/ \E r \in httpUploads : r.loop

\* uploadFiles(), from the Upload Files button, which is shown while
\* allUploadsComplete is false and enabled while not uploading and the list
\* is not empty; the first uploadFile runs up to its POST.
UploadFiles ==
    LET NeedsUpload(f) == f.status \in {"idle", "error"}
        filesToUpload == Filter(files, NeedsUpload) IN
    /\ ~isModalOpen /\ ~effectPending
    /\ ~allUploadsComplete
    /\ ~(Len(files) = 0 \/ isUploading)
    /\ ~LoopRunning
    /\ Cardinality(httpUploads) < MaxPosts
    /\ allUploadsComplete' = FALSE
    /\ IF Len(filesToUpload) = 0
       THEN UNCHANGED <<isUploading, files, uploadQueue, httpUploads, effectPending>>
       ELSE /\ isUploading' = TRUE
            /\ files' = MarkUploading(files, filesToUpload[1].id)
            /\ httpUploads' = httpUploads \cup {Request(filesToUpload[1], TRUE)}
            /\ uploadQueue' = Tail(filesToUpload)
            /\ effectPending' = TRUE
    /\ UNCHANGED <<sockVars, lastEvt, toastVars, procVars, overallProgress, serverOwes,
                   nextFileId, lastAdd>>

\* axios onUploadProgress of a POST in flight: capped at 95.
HttpProgress(req, percentCompleted) ==
    LET P(f) == f.status = "uploading"
        F(f) == [f EXCEPT !.progress = IF percentCompleted > 95 THEN 95
                                       ELSE percentCompleted]
    IN
    /\ req \in httpUploads /\ ~req.answered
    /\ files' = [i \in 1..Len(files) |->
                    IF files[i].id = req.id /\ P(files[i]) THEN F(files[i])
                    ELSE files[i]]
    /\ effectPending' = TRUE
    /\ UNCHANGED <<sockVars, lastEvt, toastVars, procVars, isUploading, overallProgress,
                   allUploadsComplete, uploadQueue, httpUploads, serverOwes,
                   nextFileId, lastAdd>>

\* The server stores an uploaded file and answers with the ids it chose; for a
\* stored file it will emit uploadComplete once, to the room of the uploadId.
ServerStoresUpload(req, u, f) ==
    /\ req \in httpUploads /\ ~req.answered
    /\ httpUploads' = (httpUploads \ {req}) \cup
           {[req EXCEPT !.answered = TRUE, !.resUploadId = u, !.resFileId = f]}
    /\ serverOwes' = IF Truthy(u) /\ Truthy(f)
                     THEN serverOwes \cup {[uploadId |-> u, fileId |-> f]}
                     ELSE serverOwes
    /\ UNCHANGED <<sockVars, lastEvt, toastVars, procVars, files, isUploading,
                   overallProgress, allUploadsComplete, effectPending,
                   uploadQueue, nextFileId, lastAdd>>

\* The uploadFiles loop goes on after an awaited uploadFile: the files, queue
\* and requests once the next uploadFile has run up to its POST.
LoopGoesOn(req, list, requests) ==
    IF req.loop /\ uploadQueue # <<>>
    THEN /\ files' = MarkUploading(list, uploadQueue[1].id)
         /\ httpUploads' = requests \cup {Request(uploadQueue[1], TRUE)}
         /\ uploadQueue' = Tail(uploadQueue)
    ELSE /\ files' = list
         /\ httpUploads' = requests
         /\ uploadQueue' = uploadQueue

\* uploadFile after the POST returned both ids.
UploadSucceeds(req) ==
    /\ req \in httpUploads /\ req.answered
    /\ Truthy(req.resUploadId) /\ Truthy(req.resFileId)
    /\ GetSocket
    /\ JoinRoom(req.resUploadId)
    /\ LoopGoesOn(req, StoreIds(files, req.id, req.resUploadId, req.resFileId),
                  httpUploads \ {req})
    /\ effectPending' = TRUE
    /\ UNCHANGED <<isConnected, reconnectAttempts, idMappings, listeners, emitLog,
                   lastEvt, toastVars, procVars, isUploading, overallProgress,
                   allUploadsComplete, serverOwes, nextFileId, lastAdd>>

\* uploadFile's catch block: the POST failed (message of the thrown value), or
\* its response lacks an id.
UploadFails(req, message) ==
    /\ req \in httpUploads
    /\ IF req.answered
       THEN /\ ~(Truthy(req.resUploadId) /\ Truthy(req.resFileId))
            /\ message = "Invalid server response: Missing uploadId or fileId."
       ELSE message = "Network Error"
    /\ IF Truthy(req.uploadId)
       THEN /\ GetSocket
            /\ LeaveRoom(req.uploadId)
       ELSE UNCHANGED <<initialized, sockConnected, activeRooms>>
    /\ LoopGoesOn(req, MarkError(files, req.id, message), httpUploads \ {req})
    /\ effectPending' = TRUE
    /\ UNCHANGED <<isConnected, reconnectAttempts, idMappings, listeners, emitLog,
                   lastEvt, toastVars, procVars, isUploading, overallProgress,
                   allUploadsComplete, serverOwes, nextFileId, lastAdd>>

handleUploadProgress(list, d) ==
    LET P(f) == f.status # "completed"
        F(f) == [f EXCEPT !.progress = d.percent, !.status = "uploading"]
    IN UpdateByUploadId(list, d.uploadId, P, F)

handleUploadComplete(list, d) ==
    LET P(f) == TRUE
        F(f) == [f EXCEPT !.progress = 100, !.status = "completed",
                          !.fileId = d.fileId]
    IN UpdateByUploadId(list, d.uploadId, P, F)

handleUploadError(list, d) ==
    LET P(f) == TRUE
        F(f) == [f EXCEPT !.status = "error", !.error = d.error]
    IN UpdateByUploadId(list, d.uploadId, P, F)

\* The listener of an upload event calls the provider's handler with the
\* rewritten event.
UploadHandler(name, data) ==
    /\ files' = CASE name = "uploadProgress" -> handleUploadProgress(files, WrapEvent(data))
                  [] name = "uploadComplete" -> handleUploadComplete(files, WrapEvent(data))
                  [] name = "uploadError" -> handleUploadError(files, WrapEvent(data))
    /\ effectPending' = TRUE

\* The server emits uploadProgress or uploadError to a room the client is in.
UploadEvent(name, data) ==
    /\ Receives(name, data)
    /\ UploadHandler(name, data)
    /\ UNCHANGED <<sockVars, lastEvt, toastVars, procVars, isUploading, overallProgress,
                   allUploadsComplete, uploadQueue, httpUploads, serverOwes,
                   nextFileId, lastAdd>>

UploadCompleteOf(owed) ==
    [uploadId |-> owed.uploadId, fileId |-> owed.fileId, percent |-> 100,
     completed |-> TRUE]

\* The server emits the uploadComplete it owes for a stored file; the event
\* reaches the client only if the client is in the room by then.
ServerEmitsUploadComplete(owed) ==
    /\ owed \in serverOwes
    /\ serverOwes' = serverOwes \ {owed}
    /\ \/ /\ Receives("uploadComplete", UploadCompleteOf(owed))
          /\ UploadHandler("uploadComplete", UploadCompleteOf(owed))
       \/ /\ ~Receives("uploadComplete", UploadCompleteOf(owed))
          /\ UNCHANGED <<files, effectPending>>
    /\ UNCHANGED <<sockVars, lastEvt, toastVars, procVars, isUploading, overallProgress,
                   allUploadsComplete, uploadQueue, httpUploads, nextFileId,
                   lastAdd>>

\* removeFile(id), from a file's remove button, enabled while not uploading.
RemoveFile(id) ==
    LET Keep(f) == f.id # id
        Leaves(f) == f.id = id /\ Truthy(f.uploadId)
                     /\ f.status \in {"uploading", "error"}
        removed == Filter(files, Leaves) IN
    /\ ~isModalOpen /\ ~effectPending
    /\ ~isUploading
    /\ \E i \in 1..Len(files) : files[i].id = id
    /\ IF removed # <<>>
       THEN /\ GetSocket
            /\ LeaveRoom(removed[1].uploadId)
       ELSE UNCHANGED <<initialized, sockConnected, activeRooms>>
    /\ files' = Filter(files, Keep)
    /\ effectPending' = TRUE
    /\ UNCHANGED <<isConnected, reconnectAttempts, idMappings, listeners, emitLog,
                   lastEvt, toastVars, procVars, isUploading, overallProgress,
                   allUploadsComplete, uploadQueue, httpUploads, serverOwes,
                   nextFileId, lastAdd>>

\* retryUpload(id), from the retry button of a failed file, enabled while not
\* uploading: the file is reset, then uploadFile runs up to its POST.
RetryUpload(id) ==
    LET Reset(f) == [f EXCEPT !.progress = 0, !.error = Undef, !.status = "idle",
                              !.uploadId = Null, !.fileId = Null]
        Is(f) == f.id = id
        seen == Filter(files, Is) IN
    /\ ~isModalOpen /\ ~effectPending
    /\ ~isUploading
    /\ seen # <<>> /\ seen[1].status = "error"
    /\ Cardinality(httpUploads) < MaxPosts
    /\ files' = MarkUploading(UpdateById(files, id, Reset), id)
    /\ httpUploads' = httpUploads \cup {Request(seen[1], FALSE)}
    /\ effectPending' = TRUE
    /\ UNCHANGED <<sockVars, lastEvt, toastVars, procVars, isUploading, overallProgress,
                   allUploadsComplete, uploadQueue, serverOwes, nextFileId,
                   lastAdd>>

\* handleGeneratePlans: the files it takes as uploaded.
CompletedFiles ==
    LET Completed(f) == f.status = "completed" IN Filter(files, Completed)

\* handleGeneratePlans: the fileIds it sends (file.fileId != null).
FileIdsOf(list) ==
    LET HasFileId(f) == f.fileId # Null /\ f.fileId # Undef
        IdOf(f) == f.fileId
    IN Map(Filter(list, HasFileId), IdOf)

\* handleGeneratePlans, from the Generate Plans button, which is shown while
\* allUploadsComplete is true.
GeneratePlans ==
    /\ ~isModalOpen /\ ~effectPending
    /\ allUploadsComplete
    /\ IF /\ CompletedFiles # <<>>
          /\ FileIdsOf(CompletedFiles) # <<>>
          /\ Truthy(CompletedFiles[1].uploadId)
       THEN StartProcessing(CompletedFiles[1].uploadId, FileIdsOf(CompletedFiles))
       ELSE UNCHANGED vars

(* --------------------------------------------------------------- useToast *)

\* Properties a caller passes to toast(): a toast without id.
ToastProps == {[title |-> "a"], [title |-> "a", open |-> FALSE]}

\* Properties a caller passes to update(): a partial toast, id included.
UpdateProps == {[title |-> "b"], [open |-> TRUE], [id |-> 1]}

\* { ...t, ...props }
Spread(t, props) ==
    [f \in DOMAIN t \cup DOMAIN props |-> IF f \in DOMAIN props THEN props[f] ELSE t[f]]

\* genId(): count = (count + 1) % Number.MAX_VALUE, far above every bound here.
genId == count + 1

\* Mutant of AddToast: the list is not cut to TOAST_LIMIT.
AddToastUncut(list, newToast) == <<newToast>> \o list

\* [newToast, ...prevState.toasts].slice(0, TOAST_LIMIT)
AddToast(list, newToast) ==
    LET all == <<newToast>> \o list
    IN SubSeq(all, 1, IF Len(all) < TOAST_LIMIT THEN Len(all) ELSE TOAST_LIMIT)

\* toast(props)
Toast(props) ==
    LET id == genId
        newToast == Spread(props, [id |-> id, open |-> TRUE])
    IN
    /\ count < MaxToasts
    /\ count' = id
    /\ toasts' = AddToast(toasts, newToast)
    /\ droppedToast' = IF Len(toasts') <= Len(toasts)
                       THEN toasts[Len(toasts)].id ELSE 0
    /\ UNCHANGED <<sockVars, lastEvt, procVars, upVars>>

\* update(id, props), of the hook or of the handle toast() returned.
Update(id, props) ==
    /\ toasts' = [i \in 1..Len(toasts) |->
                    IF toasts[i].id = id THEN Spread(toasts[i], props)
                    ELSE toasts[i]]
    /\ UNCHANGED <<count, droppedToast, sockVars, lastEvt, procVars, upVars>>

\* The toasts with open set to false for the given id, or all (no id given).
Closed(list, id) ==
    [i \in 1..Len(list) |->
        IF id = None \/ list[i].id = id[1] THEN [list[i] EXCEPT !.open = FALSE]
        ELSE list[i]]

\* toasts.filter((t) => t.id !== id)
RECURSIVE Without(_, _)
Without(list, id) ==
    IF list = <<>> THEN <<>>
    ELSE IF Head(list).id = id THEN Without(Tail(list), id)
    ELSE <<Head(list)>> \o Without(Tail(list), id)

\* dismiss(id?), of the hook or of the handle toast() returned.
Dismiss(id) ==
    /\ toasts' = Closed(toasts, id)
    /\ UNCHANGED <<count, droppedToast, sockVars, lastEvt, procVars, upVars>>

\* The 5000 ms timer the effect set for an open toast expires.
TimerCloses(i) ==
    /\ i \in 1..Len(toasts) /\ toasts[i].open
    /\ toasts' = Closed(toasts, Some(toasts[i].id))
    /\ UNCHANGED <<count, droppedToast, sockVars, lastEvt, procVars, upVars>>

\* The TOAST_REMOVE_DELAY timer the effect set for a closed toast expires.
TimerRemoves(i) ==
    /\ i \in 1..Len(toasts) /\ ~toasts[i].open
    /\ toasts' = Without(toasts, toasts[i].id)
    /\ UNCHANGED <<count, droppedToast, sockVars, lastEvt, procVars, upVars>>

(* ------------------------------------------------------------------ Init *)

Init ==
    /\ initialized = TRUE
    /\ isConnected = FALSE
    /\ reconnectAttempts = 0
    /\ activeRooms = {}
    /\ idMappings = EmptyMap
    /\ sockConnected = FALSE
    /\ listeners = UploadEventNames
    /\ emitLog = EmptyLog
    /\ lastEvt = NoEvent
    /\ processingId = Null
    /\ uploadId = Null
    /\ processingStatus = "idle"
    /\ processingProgress = 0
    /\ currentFile = Null
    /\ processedFiles = 0
    /\ totalFiles = 0
    /\ processingError = Null
    /\ processingResults = None
    /\ isModalOpen = FALSE
    /\ currentChunk = None
    /\ totalChunks = None
    /\ embeddingProgress = None
    /\ fileProgress = None
    /\ statusMessage = Null
    /\ serverStatus = Null
    /\ procRequests = <<>>
    /\ lastPost = NoPost
    /\ files = <<>>
    /\ isUploading = FALSE
    /\ overallProgress = 0
    /\ allUploadsComplete = FALSE
    /\ effectPending = FALSE
    /\ uploadQueue = <<>>
    /\ httpUploads = {}
    /\ serverOwes = {}
    /\ nextFileId = 1
    /\ lastAdd = [accepted |-> 0, rejected |-> 0]
    /\ toasts = <<>>
    /\ count = 0
    /\ droppedToast = 0

\* The inputs of startProcessing: an upload id or the empty string, and a
\* list of file ids that may be empty.
StartIds == UploadIds \cup {Empty}
StartFileIds == {<<>>, <<"f1">>}

\* The upload provider joins the room of an upload once the upload's POST
\* has returned its uploadId (uploadFile).
UploadJoinsRoom(room) ==
    /\ CanJoin(room) => ~LogFull(room)
    /\ GetSocket
    /\ JoinEffect(room)
    /\ UNCHANGED <<isConnected, reconnectAttempts, idMappings, listeners,
                   lastEvt, toastVars, procVars, upVars>>

NextProc ==
    \/ OnConnect
    \/ OnDisconnect
    \/ OnReconnect
    \/ \E room \in UploadIds : UploadJoinsRoom(room)
    \/ \E id \in StartIds, fileIds \in StartFileIds : StartProcessing(id, fileIds)
    \/ \E i \in 1..MaxInFlight, s \in UploadIds \cup {Empty}, p \in {"p1", Empty} :
          ProcessResponse(i, s, p)
    \/ \E i \in 1..MaxInFlight, isError \in BOOLEAN : ProcessFailure(i, isError)
    \/ \E name \in ProcessingEventNames : \E data \in EventData(name) :
          ProcessingEvent(name, data)
    \/ HandleClose
    \/ \E open \in BOOLEAN : SetIsModalOpen(open)

SpecProc == Init /\ [][NextProc]_vars

\* The uploadId and fileId of the responses to POST /api/files/upload.
UploadResponses ==
    {[uploadId |-> u, fileId |-> "f1"] : u \in UploadIds}
    \cup {[uploadId |-> Empty, fileId |-> Empty]}

\* The lists addFiles is given.
AddInputs == UNION {[1..n -> Files] : n \in 0..MaxAdd}

\* The lists addFiles is given in an upload session: one PDF at a time.
UploadInputs == {<<[type |-> "application/pdf", name |-> <<"a">>]>>}

NextAdd ==
    \/ \E newFiles \in AddInputs : AddFiles(newFiles)
    \/ FilesEffect
    \/ \E id \in 1..MaxFiles : RemoveFile(id)

SpecAdd == Init /\ [][NextAdd]_vars

NextUpload ==
    \/ OnConnect
    \/ OnDisconnect
    \/ \E newFiles \in UploadInputs : AddFiles(newFiles)
    \/ FilesEffect
    \/ UploadFiles
    \/ \E req \in httpUploads : HttpProgress(req, 100)
    \/ \E req \in httpUploads, res \in UploadResponses :
          ServerStoresUpload(req, res.uploadId, res.fileId)
    \/ \E req \in httpUploads : UploadSucceeds(req)
    \/ \E req \in httpUploads :
          \E message \in {"Network Error",
                          "Invalid server response: Missing uploadId or fileId."} :
              UploadFails(req, message)
    \/ \E name \in {"uploadProgress", "uploadError"} : \E data \in EventData(name) :
          UploadEvent(name, data)
    \/ \E owed \in serverOwes : ServerEmitsUploadComplete(owed)
    \/ \E id \in 1..MaxFiles : RemoveFile(id)
    \/ \E id \in 1..MaxFiles : RetryUpload(id)
    \/ GeneratePlans

SpecUpload == Init /\ [][NextUpload]_vars

NextToast ==
    \/ \E props \in ToastProps : Toast(props)
    \/ \E id \in 1..MaxToasts, props \in UpdateProps : Update(id, props)
    \/ \E id \in {None} \cup {Some(n) : n \in 1..MaxToasts} : Dismiss(id)
    \/ \E i \in 1..TOAST_LIMIT : TimerCloses(i)
    \/ \E i \in 1..TOAST_LIMIT : TimerRemoves(i)

SpecToast == Init /\ [][NextToast]_vars

NextSocket ==
    \/ OnConnect
    \/ OnDisconnect
    \/ OnConnectError
    \/ OnReconnect
    \/ \E room \in UploadIds : CallJoin(room)
    \/ \E room \in UploadIds : CallLeave(room)
    \/ \E s \in UploadIds, c \in UploadIds : CallMap(s, c)
    \/ \E names \in {UploadEventNames, ProcessingEventNames} : CallOn(names)
    \/ CallDisconnect
    \/ \E name \in EventNames : \E data \in EventData(name) : SocketEvent(name, data)

SpecSocket == Init /\ [][NextSocket]_vars

(* ------------------------------------------------- claims: SocketService *)

\* The client id the claim names for an upload id: the recorded client id when
\* a mapping is present, the upload id itself otherwise.
MappedOrSame(m, id) == IF id \in DOMAIN m THEN m[id] ELSE id

\* C3: every event handed to a callback registered through one of the seven
\* on<Event> methods carries uploadId = the client id recorded for the event's
\* original uploadId (the original uploadId when no mapping is recorded), and
\* every other field exactly as the server sent it.
C3_CallbackGetsClientId ==
    [][lastEvt' # lastEvt =>
         /\ DOMAIN lastEvt'.data = DOMAIN lastEvt'.raw
         /\ lastEvt'.data.uploadId = MappedOrSame(idMappings, lastEvt'.raw.uploadId)
         /\ \A f \in DOMAIN lastEvt'.raw \ {"uploadId"} :
                lastEvt'.data[f] = lastEvt'.raw[f]]_vars

\* C3 witness: a processingProgress event whose uploadId has a recorded mapping
\* was handed over under the client id.
C3_Witness ==
    /\ lastEvt.name = "processingProgress"
    /\ lastEvt.raw.uploadId \in DOMAIN idMappings
    /\ lastEvt.data.uploadId = idMappings[lastEvt.raw.uploadId]
    /\ lastEvt.data.uploadId # lastEvt.raw.uploadId

\* The messages emitted for a room on the current connection alternate,
\* starting with a join.
Alternates(log) ==
    \A i \in 1..Len(log) : log[i] = IF i % 2 = 1 THEN "join" ELSE "leave"

\* A step that emits a message for a room does so under the guard of its kind.
EmitsUnderGuard(room) ==
    Len(emitLog'[room]) > Len(emitLog[room]) =>
        /\ isConnected
        /\ Len(emitLog'[room]) = Len(emitLog[room]) + 1
        /\ emitLog'[room][Len(emitLog'[room])] = "join" =>
               room \notin activeRooms /\ room \in activeRooms'
        /\ emitLog'[room][Len(emitLog'[room])] = "leave" =>
               room \in activeRooms /\ room \notin activeRooms'

\* C4: for every room, a joinUploadRoom message is emitted only while
\* isConnected holds and the room is not in activeRooms, a leaveUploadRoom
\* message only while isConnected holds and the room is in activeRooms; the
\* messages emitted for a room on one connection alternate, join first.
C4_NoDuplicateJoinLeave ==
    /\ [](\A room \in UploadIds : Alternates(emitLog[room]))
    /\ [][\A room \in UploadIds : EmitsUnderGuard(room)]_vars

\* C4 witness: a room was joined, left and joined again on one connection.
C4_Witness ==
    \E room \in UploadIds :
        /\ emitLog[room] = <<"join", "leave", "join">>
        /\ room \in activeRooms

(* ----------------------------------------- claims: FileProcessingProvider *)

\* C1 (as claimed): an event handed to one of the four processing handlers
\* with an uploadId that differs from the provider's current non-null uploadId
\* leaves every field of the processing state unchanged.
C1_MismatchLeavesStateUnchanged ==
    [][(/\ lastEvt' # lastEvt
        /\ lastEvt'.name \in ProcessingEventNames
        /\ Truthy(uploadId)
        /\ lastEvt'.data.uploadId # uploadId) => UNCHANGED procState]_vars

\* The processing state after the handler of the event in rec applied it.
ShowsUpdate(rec) ==
    CASE rec.name = "processingProgress" ->
            /\ processingProgress' = IF rec.data.overallProgress # None
                                     THEN rec.data.overallProgress[1]
                                     ELSE rec.data.percent
            /\ processedFiles' = rec.data.processedFiles
            /\ totalFiles' = rec.data.totalFiles
      [] rec.name = "processingComplete" ->
            /\ processingStatus' = "complete"
            /\ processingProgress' = 100
            /\ processingResults' # None
      [] rec.name = "processingError" ->
            /\ processingStatus' = "error"
            /\ processingError' = rec.data.error

C5_InRoomWhenPosting ==
    [][\A id \in StartIds : \A fileIds \in StartFileIds :
          (StartGuard(id, fileIds) /\ StartProcessing(id, fileIds)) =>
              /\ id \in activeRooms'
              /\ Len(emitLog'[id]) > 0
              /\ emitLog'[id][Len(emitLog'[id])] = "join"]_vars

(* ----------------------------------------------------- UploadProvider claims *)

\* The file of the list with the given client id, in a one-element or empty list.
FileOfId(id) ==
    LET Is(f) == f.id = id IN Filter(files, Is)

\* C6 (as claimed, its safety half): a file that takes its uploadId and fileId
\* from the response of its POST, with the socket connected, stays uploading
\* until the uploadComplete event of that uploadId completes it; so when the
\* ids are stored and the room is joined, the one uploadComplete the server
\* emits for that upload is still to come.
C6_CompletionStillAhead ==
    [][\A req \in httpUploads :
          (UploadSucceeds(req) /\ isConnected /\ FileOfId(req.id) # <<>>) =>
              \E owed \in serverOwes' : owed.uploadId = req.resUploadId]_vars

\* C7 (as claimed): when Generate Plans is triggered, all completed files carry
\* the same uploadId.
C7_CompletedFilesShareUploadId ==
    [][GeneratePlans =>
          \A i, j \in 1..Len(CompletedFiles) :
              CompletedFiles[i].uploadId = CompletedFiles[j].uploadId]_vars

\* The files the claim C8 calls valid.
C8_Supported(file) ==
    \/ file.type \in {"application/pdf", "text/markdown"}
    \/ /\ Len(file.name) >= 3
       /\ file.name[Len(file.name) - 2] = "."
       /\ file.name[Len(file.name) - 1] = "m"
       /\ file.name[Len(file.name)] = "d"

\* C8: addFiles appends exactly the supported files of its argument, in order,
\* each idle with progress 0 and null uploadId and fileId; the files already
\* listed stay as they are, and a call with no supported file changes nothing.
C8_AddFilesAppendsValid ==
    [][\A newFiles \in AddInputs :
          AddFiles(newFiles) =>
              LET valid == SelectSeq(newFiles, C8_Supported) IN
              /\ Len(files') = Len(files) + Len(valid)
              /\ SubSeq(files', 1, Len(files)) = files
              /\ \A k \in 1..Len(valid) :
                    LET added == files'[Len(files) + k] IN
                    /\ added.file = valid[k]
                    /\ added.status = "idle"
                    /\ added.progress = 0
                    /\ added.uploadId = Null
                    /\ added.fileId = Null
              /\ \A k \in 1..Len(valid) : \A i \in 1..Len(files') :
                    files'[i].id = files'[Len(files) + k].id => i = Len(files) + k]_vars

\* An addFiles call took one file and rejected another, after a first file.
C8_Witness ==
    /\ lastAdd = [accepted |-> 1, rejected |-> 1]
    /\ Len(files) = 2
    /\ files[2].status = "idle" /\ files[2].progress = 0
    /\ files[2].uploadId = Null /\ files[2].fileId = Null
    /\ files[2].file.type = ""

\* C9: once the files effect has run on a non-empty list whose files are all
\* completed or failed, isUploading is false and allUploadsComplete is true.
C9_EffectEndsUploading ==
    (~effectPending /\ Len(files) > 0 /\ AllComplete(files)) =>
        (~isUploading /\ allUploadsComplete)

\* uploadFiles uploaded two files, one completed and one failed, and the
\* effect has ended the upload.
C9_Witness ==
    /\ ~effectPending
    /\ Len(files) = 2
    /\ \E i, j \in 1..2 : files[i].status = "completed" /\ files[j].status = "error"
    /\ ~isUploading
    /\ allUploadsComplete

\* C10: once the files effect has run, overallProgress is the mean of the
\* files' progress rounded to the nearest integer, halves up (0 for the empty
\* list), allUploadsComplete says that the list is non-empty with every file
\* completed or failed, and overallProgress is within 0..100 when every
\* progress is.
C10_EffectDerivesProgress ==
    ~effectPending =>
        /\ Len(files) = 0 => overallProgress = 0
        /\ Len(files) > 0 =>
              /\ 2 * Len(files) * overallProgress <= 2 * Sum(files) + Len(files)
              /\ 2 * Sum(files) + Len(files) < 2 * Len(files) * (overallProgress + 1)
        /\ allUploadsComplete <=>
              (Len(files) > 0 /\
               \A i \in 1..Len(files) : files[i].status \in {"completed", "error"})
        /\ (\A i \in 1..Len(files) : files[i].progress \in 0..100) =>
              overallProgress \in 0..100

\* The effect has run on two files whose mean progress is 97.5.
C10_Witness ==
    /\ ~effectPending
    /\ Len(files) = 2
    /\ Sum(files) = 195
    /\ overallProgress = 98

(* ------------------------------------------------ claims: startProcessing *)

\* C11: startProcessing called while processingStatus is processing, or with
\* an empty uploadId, or with an empty list of fileIds changes no processing
\* state, joins no room and sends no request.
C11_RefusedStartIsNoOp ==
    [][\A id \in StartIds : \A fileIds \in StartFileIds :
          (/\ processingStatus = "processing" \/ id = Empty \/ fileIds = <<>>
           /\ StartProcessing(id, fileIds)) =>
              /\ UNCHANGED procState
              /\ UNCHANGED <<activeRooms, emitLog, listeners>>
              /\ procRequests' = procRequests
              /\ ~lastPost'.posted]_vars

\* A valid call was refused because processing is under way.
C11_Witness ==
    /\ lastPost = [called |-> TRUE, posted |-> FALSE]
    /\ processingStatus = "processing"
    /\ procRequests # <<>>

\* C12: when the POST fails, the catch block leaves processingStatus = error
\* and processingError = the message of the Error, or "An unexpected error
\* occurred" for a thrown value that is not an Error.
C12_FailureSetsError ==
    [][\A i \in 1..MaxInFlight : \A isError \in BOOLEAN :
          ProcessFailure(i, isError) =>
              /\ processingStatus' = "error"
              /\ processingError' = IF isError THEN "Network Error"
                                    ELSE "An unexpected error occurred"]_vars

\* A request has failed with an Error and none is in flight.
C12_Witness ==
    /\ processingStatus = "error"
    /\ processingError = "Network Error"
    /\ lastPost = [called |-> TRUE, posted |-> TRUE]
    /\ procRequests = <<>>

(* --------------------------------------------------------- claims: useToast *)

\* C13: the toast list never holds more than TOAST_LIMIT toasts; toast() puts
\* the new toast at the head with open = true, keeps the others in order, and
\* drops the last one when the list was full.
C13_ToastListBounded ==
    /\ [](Len(toasts) <= 5)
    /\ [][\A props \in ToastProps :
             Toast(props) =>
                 /\ toasts'[1].id = count'
                 /\ toasts'[1].open = TRUE
                 /\ Tail(toasts') = IF Len(toasts) = 5
                                    THEN SubSeq(toasts, 1, 4)
                                    ELSE toasts]_vars

\* A sixth toast has pushed the oldest out of a full list.
C13_Witness ==
    /\ Len(toasts) = 5
    /\ droppedToast # 0
    /\ toasts[1].id = count
    /\ toasts[1].open
    /\ \A i \in 1..5 : toasts[i].id # droppedToast

(* --------------------------------------------- claims: leaving upload rooms *)

\* Some file of the list carries the uploadId.
HasFileOf(u) == \E i \in 1..Len(files) : files[i].uploadId = u

\* C14: when UploadProvider handles an uploadComplete or an uploadError for
\* the uploadId of one of its files, the client has left that upload room
\* when the handler is done: the id is no longer in activeRooms.
C14_HandledEventLeavesRoom ==
    [][/\ \A owed \in serverOwes :
             (/\ HasFileOf(owed.uploadId)
              /\ Receives("uploadComplete", UploadCompleteOf(owed))
              /\ ServerEmitsUploadComplete(owed)) => owed.uploadId \notin activeRooms'
       /\ \A data \in UploadErrorData :
             (/\ HasFileOf(data.uploadId)
              /\ UploadEvent("uploadError", data)) => data.uploadId \notin activeRooms']_vars

(* ---------------------------------------- claims: id mappings and disconnect *)

\* C15: the id mappings are kept by the socket's connect, disconnect,
\* connect_error and reconnect events (disconnect clears activeRooms and
\* isConnected only); a step that empties them is a disconnect() call; after
\* disconnect() activeRooms and the mappings are empty, isConnected and
\* initialized are false and getClientId returns its argument.
C15_MappingsClearedOnlyByDisconnect ==
    [][/\ (OnConnect \/ OnDisconnect \/ OnConnectError \/ OnReconnect) =>
              idMappings' = idMappings
       /\ OnDisconnect => (activeRooms' = {} /\ ~isConnected' /\ initialized')
       /\ (idMappings # EmptyMap /\ idMappings' = EmptyMap) => CallDisconnect
       /\ CallDisconnect =>
              /\ activeRooms' = {}
              /\ idMappings' = EmptyMap
              /\ ~isConnected'
              /\ ~initialized'
              /\ \A x \in UploadIds \cup {Empty} : getClientId(x)' = x]_vars

\* The mapping that rewrote an event received in a room is still in force
\* after the transport dropped (the rooms are gone) and was reopened (the
\* manager's reconnect has run, the socket's own connect has not yet).
C15_Witness ==
    /\ lastEvt # NoEvent
    /\ lastEvt.data.uploadId # lastEvt.raw.uploadId
    /\ initialized /\ isConnected /\ ~sockConnected
    /\ activeRooms = {}
    /\ getClientId(lastEvt.raw.uploadId) = lastEvt.data.uploadId

====
